---- MODULE Spec2Model ----
(***************************************************************************)
(* Cloudflare Workers file upload validator.                               *)
(*                                                                         *)
(* The worker's fetch handler (src/unnamed/part_000, the module the tests  *)
(* import as ../src/index.js) and the two helpers of                       *)
(* src/src/utils/file-validator.ts, as a state machine.                    *)
(*                                                                         *)
(* JavaScript values are represented as follows.  A string is a TLA+       *)
(* string, a number an integer, an object a record (a function from        *)
(* property names to values); a property whose value is undefined is a     *)
(* property the record does not have.  A FormDataEntryValue | null is a    *)
(* record tagged by its field kind: "null", "string" or "File".            *)
(***************************************************************************)
EXTENDS Integers, Sequences, FiniteSets, TLC

(***************************************************************************)
(* Bounds of the model.                                                    *)
(***************************************************************************)
\* Number of handler invocations the runtime may have open at once.
NumInv == 2

Inv == 1..NumInv

(***************************************************************************)
(* String helpers: String.prototype.includes and Array.prototype.join.     *)
(***************************************************************************)
\* s.includes(sub): sub occurs in s as a contiguous, case-sensitive substring.
Includes(s, sub) ==
  \E i \in 1..(Len(s) - Len(sub) + 1) : SubSeq(s, i, i + Len(sub) - 1) = sub

RECURSIVE Join(_, _)
\* arr.join(sep) for a sequence of strings.
Join(arr, sep) ==
  IF arr = <<>> THEN ""
  ELSE IF Len(arr) = 1 THEN arr[1]
  ELSE arr[1] \o sep \o Join(Tail(arr), sep)

\* arr.includes(x): strict equality with one of the elements.
ArrayIncludes(arr, x) == \E i \in 1..Len(arr) : arr[i] = x

(***************************************************************************)
(* src/src/utils/file-validator.ts                                         *)
(***************************************************************************)
MAX_FILE_SIZE == 100 * 1024 * 1024

ALLOWED_MIME_TYPES ==
  << "text/plain",
     "text/csv",
     "application/json",
     "application/pdf",
     "image/jpeg",
     "image/png",
     "image/gif",
     "image/webp",
     "application/zip",
     "application/x-zip-compressed" >>

\* The three failure reasons of validateFile (the template literals).
SizeError(size) ==
  "File size " \o ToString(size) \o " bytes exceeds maximum allowed size of "
    \o ToString(MAX_FILE_SIZE) \o " bytes (100MB)"

EmptyError == "File is empty"

TypeError(type) ==
  "File type '" \o type \o "' is not allowed. Allowed types: "
    \o Join(ALLOWED_MIME_TYPES, ", ")

\* validateFile with the size check written >= : a file of exactly the
\* maximum size is refused.
validateFile_SizeAtLeast(file) ==
  IF file.size >= MAX_FILE_SIZE
    THEN [valid |-> FALSE, error |-> SizeError(file.size)]
  ELSE IF file.size = 0
    THEN [valid |-> FALSE, error |-> EmptyError]
  ELSE IF ~ArrayIncludes(ALLOWED_MIME_TYPES, file.type)
    THEN [valid |-> FALSE, error |-> TypeError(file.type)]
  ELSE [valid |-> TRUE]

\* validateFile with the type check moved before the size checks.
validateFile_TypeFirst(file) ==
  IF ~ArrayIncludes(ALLOWED_MIME_TYPES, file.type)
    THEN [valid |-> FALSE, error |-> TypeError(file.type)]
  ELSE IF file.size > MAX_FILE_SIZE
    THEN [valid |-> FALSE, error |-> SizeError(file.size)]
  ELSE IF file.size = 0
    THEN [valid |-> FALSE, error |-> EmptyError]
  ELSE [valid |-> TRUE]

\* A validator without the check for emptiness.
validateFile_NoEmptyCheck(file) ==
  IF file.size > MAX_FILE_SIZE
    THEN [valid |-> FALSE, error |-> SizeError(file.size)]
  ELSE IF ~ArrayIncludes(ALLOWED_MIME_TYPES, file.type)
    THEN [valid |-> FALSE, error |-> TypeError(file.type)]
  ELSE [valid |-> TRUE]

\* A validator that refuses an empty file without saying why.
validateFile_EmptyUnexplained(file) ==
  IF file.size > MAX_FILE_SIZE
    THEN [valid |-> FALSE, error |-> SizeError(file.size)]
  ELSE IF file.size = 0 THEN [valid |-> FALSE]
  ELSE IF ~ArrayIncludes(ALLOWED_MIME_TYPES, file.type)
    THEN [valid |-> FALSE, error |-> TypeError(file.type)]
  ELSE [valid |-> TRUE]

\* A validator that also looks at the file's name.
validateFile_NameSensitive(file) ==
  IF file.size > MAX_FILE_SIZE
    THEN [valid |-> FALSE, error |-> SizeError(file.size)]
  ELSE IF file.size = 0 THEN [valid |-> FALSE, error |-> EmptyError]
  ELSE IF ~ArrayIncludes(ALLOWED_MIME_TYPES, file.type)
            \/ Includes(file.name, ".exe")
    THEN [valid |-> FALSE, error |-> TypeError(file.type)]
  ELSE [valid |-> TRUE]

\* validateFile(file): a FileValidation; error is a property only of a
\* failed validation.
validateFile(file) ==
  IF file.size > MAX_FILE_SIZE
    THEN [valid |-> FALSE, error |-> SizeError(file.size)]
  ELSE IF file.size = 0
    THEN [valid |-> FALSE, error |-> EmptyError]
  ELSE IF ~ArrayIncludes(ALLOWED_MIME_TYPES, file.type)
    THEN [valid |-> FALSE, error |-> TypeError(file.type)]
  ELSE [valid |-> TRUE]

\* The property names extractFileMetadata reads, in the order it writes them.
MetadataKeys == << "name", "size", "type", "lastModified" >>

\* A projection that takes the type from the file's name.
extractFileMetadata_TypeFromName(file) ==
  [k \in {MetadataKeys[i] : i \in 1..Len(MetadataKeys)} \cap DOMAIN file |->
     IF k = "type" /\ Includes(file.name, ".txt") THEN "text/plain" ELSE file[k]]

\* extractFileMetadata(file): the four properties of file, each as read; a
\* property file does not have reads as undefined.
extractFileMetadata(file) ==
  [k \in {MetadataKeys[i] : i \in 1..Len(MetadataKeys)} \cap DOMAIN file |-> file[k]]

(***************************************************************************)
(* new Date().toISOString() and new Date(string), after ECMA-262 (21.4.1). *)
(* A time value is kept as [day, ms]: whole days since the epoch and the   *)
(* milliseconds within that day (the time value itself, about 1.7e12       *)
(* milliseconds today, does not fit TLC's 32-bit integers).  Years 1970 to *)
(* 9999 are covered, the ones a worker's clock shows.                      *)
(***************************************************************************)
msPerDay == 24 * 60 * 60 * 1000
msPerHour == 60 * 60 * 1000
msPerMinute == 60 * 1000
msPerSecond == 1000

InLeapYear(y) == (y % 4 = 0) /\ ((y % 100 # 0) \/ (y % 400 = 0))

\* Day number of the first day of year y.
DayFromYear(y) ==
  365 * (y - 1970) + ((y - 1969) \div 4) - ((y - 1901) \div 100)
    + ((y - 1601) \div 400)

\* The year a day number falls in.
YearFromTime(d) ==
  CHOOSE y \in (1970 + d \div 366)..(1970 + d \div 365) :
    DayFromYear(y) <= d /\ d < DayFromYear(y + 1)

\* Day within the year (from 0) on which month m (from 0) starts.
MonthStart(m, y) ==
  << 0, 31, 59, 90, 120, 151, 181, 212, 243, 273, 304, 334 >>[m + 1]
    + (IF m >= 2 /\ InLeapYear(y) THEN 1 ELSE 0)

DayWithinYear(d) == d - DayFromYear(YearFromTime(d))

\* Month (from 0) of a day number.
MonthFromTime(d) ==
  CHOOSE m \in 0..11 :
    /\ MonthStart(m, YearFromTime(d)) <= DayWithinYear(d)
    /\ (m = 11 \/ DayWithinYear(d) < MonthStart(m + 1, YearFromTime(d)))

\* Day of the month (from 1) of a day number.
DateFromTime(d) ==
  DayWithinYear(d) - MonthStart(MonthFromTime(d), YearFromTime(d)) + 1

RECURSIVE PadStart(_, _)
\* s.padStart(w, "0")
PadStart(s, w) == IF Len(s) >= w THEN s ELSE PadStart("0" \o s, w)

\* toISOString without the zero padding of month and day.
toISOString_Unpadded(t) ==
  PadStart(ToString(YearFromTime(t.day)), 4) \o "-"
    \o ToString(MonthFromTime(t.day) + 1) \o "-"
    \o ToString(DateFromTime(t.day)) \o "T"
    \o PadStart(ToString(t.ms \div msPerHour), 2) \o ":"
    \o PadStart(ToString((t.ms % msPerHour) \div msPerMinute), 2) \o ":"
    \o PadStart(ToString((t.ms % msPerMinute) \div msPerSecond), 2) \o "."
    \o PadStart(ToString(t.ms % msPerSecond), 3) \o "Z"

\* Date.prototype.toISOString: YYYY-MM-DDTHH:mm:ss.sssZ, in UTC.
toISOString(t) ==
  PadStart(ToString(YearFromTime(t.day)), 4) \o "-"
    \o PadStart(ToString(MonthFromTime(t.day) + 1), 2) \o "-"
    \o PadStart(ToString(DateFromTime(t.day)), 2) \o "T"
    \o PadStart(ToString(t.ms \div msPerHour), 2) \o ":"
    \o PadStart(ToString((t.ms % msPerHour) \div msPerMinute), 2) \o ":"
    \o PadStart(ToString((t.ms % msPerMinute) \div msPerSecond), 2) \o "."
    \o PadStart(ToString(t.ms % msPerSecond), 3) \o "Z"

Digits == << "0", "1", "2", "3", "4", "5", "6", "7", "8", "9" >>

IsDigit(c) == ArrayIncludes(Digits, c)

DigitValue(c) == (CHOOSE i \in 1..Len(Digits) : Digits[i] = c) - 1

IsDigits(s) == Len(s) > 0 /\ \A i \in 1..Len(s) : IsDigit(SubSeq(s, i, i))

RECURSIVE ParseDigits(_)
\* The number a string of decimal digits denotes.
ParseDigits(s) ==
  IF Len(s) = 0 THEN 0
  ELSE 10 * ParseDigits(SubSeq(s, 1, Len(s) - 1))
         + DigitValue(SubSeq(s, Len(s), Len(s)))

\* The time value of an invalid date.
NaN == [nan |-> TRUE]

\* Whether s has the shape YYYY-MM-DDTHH:mm:ss.sssZ.
IsDateTimeFormat(s) ==
  /\ Len(s) = 24
  /\ IsDigits(SubSeq(s, 1, 4))
  /\ SubSeq(s, 5, 5) = "-"
  /\ IsDigits(SubSeq(s, 6, 7))
  /\ SubSeq(s, 8, 8) = "-"
  /\ IsDigits(SubSeq(s, 9, 10))
  /\ SubSeq(s, 11, 11) = "T"
  /\ IsDigits(SubSeq(s, 12, 13))
  /\ SubSeq(s, 14, 14) = ":"
  /\ IsDigits(SubSeq(s, 15, 16))
  /\ SubSeq(s, 17, 17) = ":"
  /\ IsDigits(SubSeq(s, 18, 19))
  /\ SubSeq(s, 20, 20) = "."
  /\ IsDigits(SubSeq(s, 21, 23))
  /\ SubSeq(s, 24, 24) = "Z"

\* Days in month m (from 0) of year y.
DaysInMonth(m, y) ==
  IF m = 11 THEN 31 ELSE MonthStart(m + 1, y) - MonthStart(m, y)

\* new Date(s).getTime() for the date-time string format: the time value, or
\* NaN when s is not of that format or names no instant.
DateParse(s) ==
  IF ~IsDateTimeFormat(s) THEN NaN
  ELSE
    LET y == ParseDigits(SubSeq(s, 1, 4))
        m == ParseDigits(SubSeq(s, 6, 7)) - 1
        d == ParseDigits(SubSeq(s, 9, 10))
        hh == ParseDigits(SubSeq(s, 12, 13))
        mm == ParseDigits(SubSeq(s, 15, 16))
        ss == ParseDigits(SubSeq(s, 18, 19))
        ms == ParseDigits(SubSeq(s, 21, 23))
    IN IF /\ m \in 0..11
          /\ d \in 1..DaysInMonth(m, y)
          /\ hh \in 0..23
          /\ mm \in 0..59
          /\ ss \in 0..59
         THEN [day |-> DayFromYear(y) + MonthStart(m, y) + d - 1,
               ms |-> hh * msPerHour + mm * msPerMinute + ss * msPerSecond + ms]
         ELSE NaN

(***************************************************************************)
(* JSON.stringify of a FileUploadResponse (src/src/types.ts) and JSON.parse *)
(* of the text, after ECMA-262 (25.5).  The text is a string; stringify     *)
(* writes the properties in the order the object literal gives them and     *)
(* omits a property whose value is undefined.                               *)
(***************************************************************************)
Quote == "\""
Backslash == "\\"

\* The positions of s, from i on, that hold one of the characters cs.
Positions(s, i, cs) == {j \in i..Len(s) : SubSeq(s, j, j) \in cs}

\* The least element of a non-empty set of integers.
Least(P) == CHOOSE j \in P : \A k \in P : j <= k

RECURSIVE EscapeJSON(_)
\* The characters of s with each quotation mark and backslash escaped.
EscapeJSON(s) ==
  LET P == Positions(s, 1, {Quote, Backslash})
  IN IF P = {} THEN s
     ELSE SubSeq(s, 1, Least(P) - 1) \o Backslash \o SubSeq(s, Least(P), Least(P))
            \o EscapeJSON(SubSeq(s, Least(P) + 1, Len(s)))

\* JSON.stringify of a string.
QuoteJSONString(s) == Quote \o EscapeJSON(s) \o Quote

\* One "key":value member, with the comma that precedes it unless it is the
\* first.
Member(first, key, text) ==
  (IF first THEN "" ELSE ",") \o QuoteJSONString(key) \o ":" \o text

\* JSON.stringify of a FileMetadata: name, size, type, lastModified.
StringifyMetadata(m) ==
  "{" \o (IF "name" \in DOMAIN m
            THEN Member(TRUE, "name", QuoteJSONString(m.name)) ELSE "")
      \o (IF "size" \in DOMAIN m
            THEN Member("name" \notin DOMAIN m, "size", ToString(m.size)) ELSE "")
      \o (IF "type" \in DOMAIN m
            THEN Member({"name", "size"} \cap DOMAIN m = {}, "type",
                        QuoteJSONString(m.type))
            ELSE "")
      \o (IF "lastModified" \in DOMAIN m
            THEN Member({"name", "size", "type"} \cap DOMAIN m = {},
                        "lastModified", ToString(m.lastModified))
            ELSE "")
      \o "}"

\* JSON.stringify(response) for a FileUploadResponse: success, file, error,
\* timestamp, in the order the handler's object literals list them.
JSONStringify(r) ==
  "{" \o Member(TRUE, "success", IF r.success THEN "true" ELSE "false")
      \o (IF "file" \in DOMAIN r
            THEN Member(FALSE, "file", StringifyMetadata(r.file)) ELSE "")
      \o (IF "error" \in DOMAIN r
            THEN Member(FALSE, "error", QuoteJSONString(r.error)) ELSE "")
      \o Member(FALSE, "timestamp", QuoteJSONString(r.timestamp))
      \o "}"

\* What a parse that fails yields (JSON.parse throws a SyntaxError).
SyntaxError == [syntaxError |-> TRUE]

\* The characters of s at positions i to j that s has.
Slice(s, i, j) ==
  SubSeq(s, IF i < 1 THEN 1 ELSE i, IF j > Len(s) THEN Len(s) ELSE j)

CharAt(s, i) == Slice(s, i, i)

RECURSIVE ScanString(_, _, _)
\* The characters of a JSON string from position i (after the opening
\* quotation mark) up to its closing quotation mark, appended to acc:
\* [v, next], or next = 0 when the string is not closed.
ScanString(s, i, acc) ==
  LET P == Positions(s, i, {Quote, Backslash})
  IN IF P = {} THEN [v |-> acc, next |-> 0]
     ELSE IF CharAt(s, Least(P)) = Quote
       THEN [v |-> acc \o SubSeq(s, i, Least(P) - 1), next |-> Least(P) + 1]
     ELSE IF CharAt(s, Least(P) + 1) \in {Quote, Backslash}
       THEN ScanString(s, Least(P) + 2,
                       acc \o SubSeq(s, i, Least(P) - 1) \o CharAt(s, Least(P) + 1))
     ELSE [v |-> acc, next |-> 0]

\* The position after the run of digits that starts at i.
ScanDigits(s, i) ==
  Least({j \in i..(Len(s) + 1) : ~IsDigit(CharAt(s, j))})

RECURSIVE ParseValue(_, _)
RECURSIVE ParseMembers(_, _, _)
\* The JSON value that starts at position i: [v, next], or next = 0 when
\* there is none.
ParseValue(s, i) ==
  IF CharAt(s, i) = "{"
    THEN IF CharAt(s, i + 1) = "}"
           THEN [v |-> << >>, next |-> i + 2]
           ELSE ParseMembers(s, i + 1, << >>)
  ELSE IF CharAt(s, i) = Quote THEN ScanString(s, i + 1, "")
  ELSE IF IsDigit(CharAt(s, i))
    THEN [v |-> ParseDigits(SubSeq(s, i, ScanDigits(s, i) - 1)),
          next |-> ScanDigits(s, i)]
  ELSE IF Slice(s, i, i + 3) = "true" THEN [v |-> TRUE, next |-> i + 4]
  ELSE IF Slice(s, i, i + 4) = "false" THEN [v |-> FALSE, next |-> i + 5]
  ELSE [v |-> SyntaxError, next |-> 0]

\* The members of an object from position i (a key's opening quotation
\* mark), added to acc, up to the closing brace.
ParseMembers(s, i, acc) ==
  IF CharAt(s, i) # Quote THEN [v |-> SyntaxError, next |-> 0]
  ELSE
    LET key == ScanString(s, i + 1, "")
    IN IF key.next = 0 \/ CharAt(s, key.next) # ":"
         THEN [v |-> SyntaxError, next |-> 0]
         ELSE
           LET val == ParseValue(s, key.next + 1)
           IN IF val.next = 0 THEN [v |-> SyntaxError, next |-> 0]
              ELSE IF CharAt(s, val.next) = ","
                THEN ParseMembers(s, val.next + 1, (key.v :> val.v) @@ acc)
              ELSE IF CharAt(s, val.next) = "}"
                THEN [v |-> (key.v :> val.v) @@ acc, next |-> val.next + 1]
              ELSE [v |-> SyntaxError, next |-> 0]

\* JSON.parse(text): the value, or SyntaxError unless the whole text is one
\* JSON value.
JSONParse(text) ==
  LET r == ParseValue(text, 1)
  IN IF r.next = Len(text) + 1 THEN r.v ELSE SyntaxError

(***************************************************************************)
(* The requests, form fields, files, faults and clock readings the model   *)
(* draws its inputs from.                                                  *)
(***************************************************************************)
Methods == {"OPTIONS", "POST", "GET", "PUT", "DELETE"}

\* Request headers: none, or a Content-Type (Headers.get is keyed by the
\* lower-cased name).
RequestHeaders ==
  {<< >>} \cup
  {("content-type" :> v) :
     v \in {"application/json",
            "multipart/form-data",
            "multipart/form-data; boundary=----X",
            "Multipart/Form-Data; boundary=----X",
            "text/plain; was=multipart/form-data"}}

FileNames == {"test.txt", "my \"big\" file.exe"}

FileSizes ==
  {0, 1, 12, MAX_FILE_SIZE - 1, MAX_FILE_SIZE, MAX_FILE_SIZE + 1,
   101 * 1024 * 1024}

FileTypes ==
  {ALLOWED_MIME_TYPES[i] : i \in 1..Len(ALLOWED_MIME_TYPES)}
    \cup {"application/x-executable", "", "TEXT/PLAIN", "image/jpg"}

\* The File entries a parsed form carries: name, size, type and
\* lastModified are all present on a File.
Files ==
  [kind : {"File"}, name : FileNames, size : FileSizes, type : FileTypes,
   lastModified : {1234567890}]

\* A form field that is a plain string.
TextEntry(v) == [kind |-> "string", value |-> v]

\* What FormData.get(name) and a failed lookup yield.
Null == [kind |-> "null"]

\* The parsed forms: no field, another field only, a text field named
\* "file", a File named "file" (alone or beside another field).
FormDatas ==
  {<< >>, ("description" :> TextEntry("notes")), ("file" :> TextEntry("hello"))}
    \cup {("file" :> f) : f \in Files}
    \cup {("file" :> f) @@ ("description" :> TextEntry("notes")) :
            f \in {g \in Files : g.name = "test.txt" /\ g.type = "text/plain"}}

\* What request.formData() may reject with: an Error (the runtime's
\* TypeError, or the 413 of the platform) with its message, which may be
\* empty, or a thrown value that is not an Error and has no message.
Faults ==
  {[isError |-> TRUE, message |-> "Unexpected end of multipart data"],
   [isError |-> TRUE, message |-> "Request entity too large"],
   [isError |-> TRUE, message |-> ""],
   [isError |-> FALSE]}

\* A request body, by what request.formData() does with it.
Bodies ==
  {[kind |-> "form", entries |-> fd] : fd \in FormDatas}
    \cup {[kind |-> "fault", thrown |-> e] : e \in Faults}

Requests == [method : Methods, headers : RequestHeaders, body : Bodies]

\* Readings of the clock (new Date()): the last millisecond of 2024-02-29
\* and an instant of 2025-11-03.
Times == {[day |-> 19782, ms |-> 86399999], [day |-> 20395, ms |-> 61200000]}

\* t is not later than u.
TimeLeq(t, u) == t.day < u.day \/ (t.day = u.day /\ t.ms <= u.ms)

(***************************************************************************)
(* State: one record of each kind per handler invocation.                  *)
(***************************************************************************)
VARIABLES
  pc,        \* where the invocation stands: "idle", "formData" (suspended
             \* at await request.formData()) or "returned"
  request,   \* the Request it was called with
  response,  \* the Response it returned
  log,       \* the console records it emitted, in order
  calls,     \* the functions it called, in order
  subject,   \* the file a direct call of a helper is given
  result,    \* what the helper called last returned
  history    \* the direct calls of validateFile made so far, in order

vars == << pc, request, response, log, calls, subject, result, history >>

NoRequest == [kind |-> "none"]
NoResponse == [kind |-> "none"]
NoSubject == [kind |-> "none"]
NoResult == [fn |-> "none"]

\* No invocation is open.
InitWorker ==
  /\ pc = [i \in Inv |-> "idle"]
  /\ request = [i \in Inv |-> NoRequest]
  /\ response = [i \in Inv |-> NoResponse]
  /\ log = [i \in Inv |-> << >>]
  /\ calls = [i \in Inv |-> << >>]
  /\ history = << >>

Init ==
  /\ InitWorker
  /\ subject = NoSubject
  /\ result = NoResult

(***************************************************************************)
(* src/unnamed/part_000: isFile and the responses of fetch.                *)
(***************************************************************************)
\* typeof of a FormDataEntryValue | null (typeof null is "object").
TypeOf(value) == IF value.kind = "string" THEN "string" ELSE "object"

\* isFile(value): the type guard.
isFile(value) ==
  /\ value # Null
  /\ TypeOf(value) = "object"
  /\ "name" \in DOMAIN value
  /\ "size" \in DOMAIN value

\* Headers.get(name): the value, or null.
HeadersHas(headers, name) == name \in DOMAIN headers

\* FormData.get(name): the entry, or null.
FormDataGet(entries, name) ==
  IF name \in DOMAIN entries THEN entries[name] ELSE Null

\* new Response(null, ...): no body.
NullBody == [kind |-> "null"]
\* new Response(text, ...).
TextBody(text) == [kind |-> "text", text |-> text]

CorsPreflightHeaders ==
  ("Access-Control-Allow-Origin" :> "*")
    @@ ("Access-Control-Allow-Methods" :> "POST, OPTIONS")
    @@ ("Access-Control-Allow-Headers" :> "Content-Type")

\* The JSON responses' headers without the CORS header.
JsonHeaders_NoCors == ("Content-Type" :> "application/json")

JsonHeaders ==
  ("Content-Type" :> "application/json")
    @@ ("Access-Control-Allow-Origin" :> "*")

\* The preflight response with status 204 No Content.
OptionsResponse_NoContent ==
  [status |-> 204, headers |-> CorsPreflightHeaders, body |-> NullBody]

\* The response to a CORS preflight request.
OptionsResponse ==
  [status |-> 200, headers |-> CorsPreflightHeaders, body |-> NullBody]

\* new Response(JSON.stringify(response), {status, headers}).
JsonResponse(status, r) ==
  [status |-> status, headers |-> JsonHeaders, body |-> TextBody(JSONStringify(r))]

\* A failure FileUploadResponse built at time t, as a Response.
ErrorResponse(status, error, t) ==
  JsonResponse(status,
               [success |-> FALSE, error |-> error, timestamp |-> toISOString(t)])

\* The response to a method other than POST with status 400.
MethodNotAllowedResponse_BadRequest(t) ==
  ErrorResponse(400, "Method not allowed. Only POST requests are accepted.", t)

\* Lines 31-45: the response to a method other than POST.
MethodNotAllowedResponse(t) ==
  ErrorResponse(405, "Method not allowed. Only POST requests are accepted.", t)

\* The response to a Content-Type that is not multipart with status 500.
ContentTypeResponse_ServerError(t) ==
  ErrorResponse(500, "Content-Type must be multipart/form-data", t)

\* Lines 49-63: the response to a Content-Type that is not multipart.
ContentTypeResponse(t) ==
  ErrorResponse(400, "Content-Type must be multipart/form-data", t)

\* The response when the "file" entry is not a File with status 404.
NoFileResponse_NotFound(t) ==
  ErrorResponse(404,
                "No file provided. Please include a file in the \"file\" field.", t)

\* Lines 71-85: the response when the "file" entry is not a File.
NoFileResponse(t) ==
  ErrorResponse(400,
                "No file provided. Please include a file in the \"file\" field.", t)

\* The response to a file that fails validation without the validator's
\* reason.
ValidationFailedResponse_NoReason(validation, t) ==
  ErrorResponse(400, "File validation failed", t)

\* Lines 91-105: the response to a file that fails validation.
ValidationFailedResponse(validation, t) ==
  ErrorResponse(400, validation.error, t)

\* The success response with an empty error beside the file.
SuccessResponse_WithError(metadata, t) ==
  JsonResponse(200,
               [success |-> TRUE, file |-> metadata, error |-> "",
                timestamp |-> toISOString(t)])

\* Lines 119-131: the success response.
SuccessResponse(metadata, t) ==
  JsonResponse(200,
               [success |-> TRUE, file |-> metadata, timestamp |-> toISOString(t)])

\* The message of the catch-all without the fault's message.
UploadFailedError_NoMessage(thrown) ==
  "File upload failed: " \o "Unknown error"

\* Line 139: the message of the catch-all.
UploadFailedError(thrown) ==
  "File upload failed: "
    \o (IF thrown.isError THEN thrown.message ELSE "Unknown error")

\* The catch-all answering with the default status of a Response.
CatchResponse_DefaultStatus(thrown, t) ==
  ErrorResponse(200, UploadFailedError(thrown), t)

\* Lines 137-149: the response of the catch-all.
CatchResponse(thrown, t) == ErrorResponse(500, UploadFailedError(thrown), t)

\* The Content-Type gate letting a request without the header through.
IsMultipart_AbsentPasses(headers) ==
  HeadersHas(headers, "content-type")
    => Includes(headers["content-type"], "multipart/form-data")

\* contentType?.includes('multipart/form-data')
IsMultipart(headers) ==
  /\ HeadersHas(headers, "content-type")
  /\ Includes(headers["content-type"], "multipart/form-data")

\* The record console.log writes on the success path.
SuccessLog(metadata, t) ==
  [level |-> "log", message |-> "File upload successful:",
   data |-> [k \in {"name", "size", "type"} \cap DOMAIN metadata |-> metadata[k]]
              @@ ("timestamp" :> toISOString(t))]

\* The catch-all writing through console.log.
ErrorLog_AsLog(thrown) ==
  [level |-> "log", message |-> "File upload error:", data |-> thrown]

\* The record console.error writes in the catch-all.
ErrorLog(thrown) ==
  [level |-> "error", message |-> "File upload error:", data |-> thrown]

(***************************************************************************)
(* fetch(request, env).  The handler runs without interruption up to       *)
(* await request.formData(), its only suspension point, and from the       *)
(* settling of that promise to its return.                                 *)
(***************************************************************************)
\* The invocation returns resp.
Return(i, resp) ==
  /\ pc' = [pc EXCEPT ![i] = "returned"]
  /\ response' = [response EXCEPT ![i] = resp]

\* The invocation calls the functions fns, in order.
Call(i, fns) == calls' = [calls EXCEPT ![i] = calls[i] \o fns]

\* The handler with the Content-Type gate ahead of the method gate.
Fetch_ContentTypeFirst(i, r, t) ==
  /\ pc[i] = "idle"
  /\ request' = [request EXCEPT ![i] = r]
  /\ IF r.method = "OPTIONS"
       THEN Return(i, OptionsResponse) /\ UNCHANGED calls
     ELSE IF ~IsMultipart(r.headers)
       THEN Return(i, ContentTypeResponse(t))
              /\ UNCHANGED calls
     ELSE IF r.method # "POST"
       THEN Return(i, MethodNotAllowedResponse(t))
              /\ UNCHANGED calls
     ELSE /\ pc' = [pc EXCEPT ![i] = "formData"]
          /\ Call(i, << "formData" >>)
          /\ UNCHANGED response
  /\ UNCHANGED << log, subject, result, history >>

\* fetch is called with request r; t is the clock reading of new Date().
\* Lines 17-67: the OPTIONS, method and Content-Type gates, then the call
\* of request.formData().
Fetch(i, r, t) ==
  /\ pc[i] = "idle"
  /\ request' = [request EXCEPT ![i] = r]
  /\ IF r.method = "OPTIONS"
       THEN Return(i, OptionsResponse) /\ UNCHANGED calls
     ELSE IF r.method # "POST"
       THEN Return(i, MethodNotAllowedResponse(t))
              /\ UNCHANGED calls
     ELSE IF ~IsMultipart(r.headers)
       THEN Return(i, ContentTypeResponse(t))
              /\ UNCHANGED calls
     ELSE /\ pc' = [pc EXCEPT ![i] = "formData"]
          /\ Call(i, << "formData" >>)
          /\ UNCHANGED response
  /\ UNCHANGED << log, subject, result, history >>

\* The continuation reading the form from a variable of module scope, which
\* holds the form of whichever open invocation wrote it last.
FormDataResolved_SharedForm(i, t1, t2) ==
  /\ pc[i] = "formData"
  /\ request[i].body.kind = "form"
  /\ TimeLeq(t1, t2)
  /\ \E j \in Inv :
       /\ request[j] # NoRequest
       /\ request[j].body.kind = "form"
       /\ LET fileEntry == FormDataGet(request[j].body.entries, "file")
              validation == validateFile(fileEntry)
              metadata == extractFileMetadata(fileEntry)
          IN IF ~isFile(fileEntry)
               THEN /\ Return(i, NoFileResponse(t2))
                    /\ Call(i, << "isFile" >>)
                    /\ UNCHANGED log
             ELSE IF ~validation.valid
               THEN /\ Return(i, ValidationFailedResponse(validation, t2))
                    /\ Call(i, << "isFile", "validateFile" >>)
                    /\ UNCHANGED log
             ELSE /\ log' = [log EXCEPT
                               ![i] = Append(log[i], SuccessLog(metadata, t1))]
                  /\ Return(i, SuccessResponse(metadata, t2))
                  /\ Call(i, << "isFile", "validateFile", "extractFileMetadata",
                                "console.log" >>)
  /\ UNCHANGED << request, subject, result, history >>

\* request.formData() resolves.  Lines 67-131: the lookup of "file", the
\* type guard, validation, and the success response; t1 and t2 are the
\* clock readings of the log record and of the response.
FormDataResolved(i, t1, t2) ==
  /\ pc[i] = "formData"
  /\ request[i].body.kind = "form"
  /\ TimeLeq(t1, t2)
  /\ LET fileEntry == FormDataGet(request[i].body.entries, "file")
         validation == validateFile(fileEntry)
         metadata == extractFileMetadata(fileEntry)
     IN IF ~isFile(fileEntry)
          THEN /\ Return(i, NoFileResponse(t2))
               /\ Call(i, << "isFile" >>)
               /\ UNCHANGED log
        ELSE IF ~validation.valid
          THEN /\ Return(i, ValidationFailedResponse(validation, t2))
               /\ Call(i, << "isFile", "validateFile" >>)
               /\ UNCHANGED log
        ELSE /\ log' = [log EXCEPT ![i] = Append(log[i], SuccessLog(metadata, t1))]
             /\ Return(i, SuccessResponse(metadata, t2))
             /\ Call(i, << "isFile", "validateFile", "extractFileMetadata",
                           "console.log" >>)
  /\ UNCHANGED << request, subject, result, history >>

\* The catch-all retrying the parse instead of responding.
FormDataRejected_Retry(i, t) ==
  /\ pc[i] = "formData"
  /\ request[i].body.kind = "fault"
  /\ log' = [log EXCEPT ![i] = Append(log[i], ErrorLog(request[i].body.thrown))]
  /\ Call(i, << "console.error", "formData" >>)
  /\ UNCHANGED << pc, response, request, subject, result, history >>

\* request.formData() rejects.  Lines 133-150: the catch-all.
FormDataRejected(i, t) ==
  /\ pc[i] = "formData"
  /\ request[i].body.kind = "fault"
  /\ log' = [log EXCEPT ![i] = Append(log[i], ErrorLog(request[i].body.thrown))]
  /\ Return(i, CatchResponse(request[i].body.thrown, t))
  /\ Call(i, << "console.error" >>)
  /\ UNCHANGED << request, subject, result, history >>

\* The runtime has sent the response; the invocation and all it held are
\* gone.
Complete(i) ==
  /\ pc[i] = "returned"
  /\ pc' = [pc EXCEPT ![i] = "idle"]
  /\ request' = [request EXCEPT ![i] = NoRequest]
  /\ response' = [response EXCEPT ![i] = NoResponse]
  /\ log' = [log EXCEPT ![i] = << >>]
  /\ calls' = [calls EXCEPT ![i] = << >>]
  /\ UNCHANGED << subject, result, history >>

\* No other invocation is open.
Solo(i) == \A j \in Inv \ {i} : pc[j] = "idle"

\* The runtime calls fetch with some request, no other invocation being open.
Receive(i) ==
  /\ pc[i] = "idle"
  /\ Solo(i)
  /\ \E r \in Requests, t \in Times : Fetch(i, r, t)

\* The worker, given one request at a time.
Next ==
  \/ \E i \in Inv : Receive(i)
  \/ \E i \in Inv, t1 \in Times, t2 \in Times : FormDataResolved(i, t1, t2)
  \/ \E i \in Inv, t \in Times : FormDataRejected(i, t)
  \/ \E i \in Inv : Complete(i)

Spec == Init /\ [][Next]_vars

(***************************************************************************)
(* The worker with several invocations open at once: the runtime may call  *)
(* fetch for a request while others are suspended at request.formData().   *)
(***************************************************************************)
\* A File entry.
FileEntry(name, size, type) ==
  [kind |-> "File", name |-> name, size |-> size, type |-> type,
   lastModified |-> 1234567890]

MultipartHeaders == ("content-type" :> "multipart/form-data; boundary=----X")

FormBody(entries) == [kind |-> "form", entries |-> entries]
FaultBody(thrown) == [kind |-> "fault", thrown |-> thrown]

\* One request for each path through the handler.
ConcurrentRequests ==
  {[method |-> "OPTIONS", headers |-> << >>,
    body |-> FaultBody([isError |-> FALSE])],
   [method |-> "GET", headers |-> MultipartHeaders,
    body |-> FormBody("file" :> FileEntry("test.txt", 12, "text/plain"))],
   [method |-> "POST", headers |-> ("content-type" :> "application/json"),
    body |-> FormBody("file" :> FileEntry("test.txt", 12, "text/plain"))]}
  \cup
  {[method |-> "POST", headers |-> MultipartHeaders, body |-> b] :
     b \in {FaultBody([isError |-> TRUE, message |-> "Request entity too large"]),
            FaultBody([isError |-> FALSE]),
            FormBody(<< >>),
            FormBody("file" :> TextEntry("hello")),
            FormBody("file" :> FileEntry("test.txt", 12, "text/plain")),
            FormBody("file" :> FileEntry("test.txt", 0, "text/plain")),
            FormBody("file" :> FileEntry("test.txt", MAX_FILE_SIZE, "image/png")),
            FormBody("file" :> FileEntry("my \"big\" file.exe", MAX_FILE_SIZE + 1,
                                          "application/x-executable")),
            FormBody("file" :> FileEntry("my \"big\" file.exe", 12,
                                          "application/x-executable"))}}

\* The runtime calls fetch with some request, whatever else is open.
ReceiveConcurrent(i) ==
  /\ pc[i] = "idle"
  /\ \E r \in ConcurrentRequests, t \in Times : Fetch(i, r, t)

NextConcurrent ==
  \/ \E i \in Inv : ReceiveConcurrent(i)
  \/ \E i \in Inv, t1 \in Times, t2 \in Times : FormDataResolved(i, t1, t2)
  \/ \E i \in Inv, t \in Times : FormDataRejected(i, t)
  \/ \E i \in Inv : Complete(i)

SpecConcurrent == Init /\ [][NextConcurrent]_vars

(***************************************************************************)
(* Direct calls of the helpers, as the unit tests make them.               *)
(***************************************************************************)
\* The files a direct call is given: the File entries, and objects cast to
\* File that lack lastModified.
SubjectFiles ==
  Files \cup [name : FileNames, size : FileSizes, type : FileTypes]

InitHelpers ==
  /\ InitWorker
  /\ subject \in SubjectFiles
  /\ result = NoResult

CallValidateFile ==
  /\ subject # NoSubject
  /\ result' = [fn |-> "validateFile", value |-> validateFile(subject)]
  /\ UNCHANGED << pc, request, response, log, calls, subject, history >>

CallExtractFileMetadata ==
  /\ subject # NoSubject
  /\ result' = [fn |-> "extractFileMetadata", value |-> extractFileMetadata(subject)]
  /\ UNCHANGED << pc, request, response, log, calls, subject, history >>

NextHelpers == CallValidateFile \/ CallExtractFileMetadata

SpecHelpers == InitHelpers /\ [][NextHelpers]_vars

(***************************************************************************)
(* validateFile called again and again, on one file after another, as the  *)
(* unit tests and successive requests do.                                  *)
(***************************************************************************)
MaxValidations == 3

\* Files that agree or differ in each of name, size and declared type.
RepeatFiles ==
  {FileEntry(name, size, type) :
     name \in FileNames,
     size \in {0, 12, MAX_FILE_SIZE + 1},
     type \in {"text/plain", "application/x-executable"}}

ValidateFileAgain(f) ==
  /\ Len(history) < MaxValidations
  /\ subject' = f
  /\ result' = [fn |-> "validateFile", value |-> validateFile(f)]
  /\ history' = Append(history, [file |-> f, value |-> validateFile(f)])
  /\ UNCHANGED << pc, request, response, log, calls >>

NextRepeat == \E f \in RepeatFiles : ValidateFileAgain(f)

SpecRepeat == Init /\ [][NextRepeat]_vars

(***************************************************************************)
(* What a client sees of a returned response, as the tests read it         *)
(* (src/tests/index.test.ts).                                              *)
(***************************************************************************)
Returned(i) == pc[i] = "returned"

\* await response.json(): the parsed body; a response without a body has
\* no JSON to parse.
ResponseJson(i) ==
  IF response[i].body.kind = "text" THEN JSONParse(response[i].body.text)
  ELSE SyntaxError

\* response.headers.get(name) = value
HeaderIs(i, name, value) ==
  name \in DOMAIN response[i].headers /\ response[i].headers[name] = value

\* The body is a failure FileUploadResponse with this error.
FailureBody(i, error) ==
  LET b == ResponseJson(i)
  IN /\ b # SyntaxError
     /\ {"success", "error"} \subseteq DOMAIN b
     /\ b.success = FALSE
     /\ b.error = error

\* The request is a POST whose Content-Type contains multipart/form-data.
MultipartPost(i) ==
  /\ request[i].method = "POST"
  /\ "content-type" \in DOMAIN request[i].headers
  /\ Includes(request[i].headers["content-type"], "multipart/form-data")

\* The request's body parses to a form.
Parses(i) == request[i].body.kind = "form"

\* The form has a File in its "file" field.
HasFile(i) ==
  /\ Parses(i)
  /\ "file" \in DOMAIN request[i].body.entries
  /\ request[i].body.entries["file"].kind = "File"

UploadedFile(i) == request[i].body.entries["file"]

\* The allow-list as the specification states it (section 4.2).
AllowList ==
  {"text/plain", "text/csv", "application/json", "application/pdf",
   "image/jpeg", "image/png", "image/gif", "image/webp", "application/zip",
   "application/x-zip-compressed"}

AllowListText ==
  "text/plain, text/csv, application/json, application/pdf, image/jpeg, "
    \o "image/png, image/gif, image/webp, application/zip, "
    \o "application/x-zip-compressed"

\* The file meets every constraint: 0 < size <= 104,857,600 and an allowed
\* declared type.
MeetsConstraints(f) ==
  f.size > 0 /\ f.size <= 104857600 /\ f.type \in AllowList

(***************************************************************************)
(* C1.  A POST multipart request whose body parses and whose "file" field  *)
(* is a file with 0 < size <= 104,857,600 and an allowed declared type is  *)
(* answered 200 with success=true and file.name, file.size, file.type and  *)
(* lastModified equal to the uploaded file's.                              *)
(***************************************************************************)
C1_ValidUploadAccepted ==
  \A i \in Inv :
    (Returned(i) /\ MultipartPost(i) /\ HasFile(i)
       /\ MeetsConstraints(UploadedFile(i)))
    => /\ response[i].status = 200
       /\ LET b == ResponseJson(i)
          IN /\ b # SyntaxError
             /\ {"success", "file"} \subseteq DOMAIN b
             /\ b.success = TRUE
             /\ DOMAIN b.file = {"name", "size", "type", "lastModified"}
             /\ b.file.name = UploadedFile(i).name
             /\ b.file.size = UploadedFile(i).size
             /\ b.file.type = UploadedFile(i).type
             /\ b.file.lastModified = UploadedFile(i).lastModified

\* A file of exactly the maximum size, with a name that needs escaping in
\* JSON, has been accepted.
C1_Witness ==
  \E i \in Inv :
    /\ Returned(i) /\ MultipartPost(i) /\ HasFile(i)
    /\ UploadedFile(i).size = 104857600
    /\ UploadedFile(i).type = "application/x-zip-compressed"
    /\ UploadedFile(i).name = "my \"big\" file.exe"
    /\ response[i].status = 200

(***************************************************************************)
(* C2.  validateFile checks size > 104,857,600, then size = 0, then the    *)
(* declared type against the allow-list, and returns on the first failure: *)
(* the size reason if the file is oversized, whatever its type; else "File *)
(* is empty" if it is empty, whatever its type; else the type reason,      *)
(* naming the rejected type and listing the ten allowed types joined by    *)
(* ", "; else valid with no reason.  Exactly one reason is attached.       *)
(***************************************************************************)
C2_OrderedChecks ==
  result.fn = "validateFile" =>
    LET v == result.value
    IN IF subject.size > 104857600
         THEN /\ DOMAIN v = {"valid", "error"}
              /\ v.valid = FALSE
              /\ v.error = "File size " \o ToString(subject.size)
                             \o " bytes exceeds maximum allowed size of 104857600"
                             \o " bytes (100MB)"
              /\ ~Includes(v.error, "not allowed")
              /\ ~Includes(v.error, "empty")
       ELSE IF subject.size = 0
         THEN /\ DOMAIN v = {"valid", "error"}
              /\ v.valid = FALSE
              /\ v.error = "File is empty"
       ELSE IF subject.type \notin AllowList
         THEN /\ DOMAIN v = {"valid", "error"}
              /\ v.valid = FALSE
              /\ v.error = "File type '" \o subject.type
                             \o "' is not allowed. Allowed types: " \o AllowListText
              /\ ~Includes(v.error, "exceeds")
              /\ ~Includes(v.error, "empty")
       ELSE v = [valid |-> TRUE]

\* A file that is both oversized and of a disallowed type has been
\* validated, and so has an empty file of a disallowed type.
C2_Witness ==
  /\ result.fn = "validateFile"
  /\ result.value.valid = FALSE
  /\ subject.type = "application/x-executable"
  /\ subject.size = 105906176

(***************************************************************************)
(* C3.  A POST multipart request whose "file" field is a file that fails a *)
(* constraint is answered 400 with success=false and the error that        *)
(* validateFile returns: an empty file's error mentions "empty", an        *)
(* oversized file's contains "exceeds maximum allowed size", a disallowed  *)
(* type's mentions "not allowed".                                          *)
(***************************************************************************)
C3_InvalidFileRejected ==
  \A i \in Inv :
    (Returned(i) /\ MultipartPost(i) /\ HasFile(i)
       /\ ~MeetsConstraints(UploadedFile(i)))
    => /\ response[i].status = 400
       /\ "error" \in DOMAIN validateFile(UploadedFile(i))
       /\ FailureBody(i, validateFile(UploadedFile(i)).error)
       /\ UploadedFile(i).size = 0 => Includes(ResponseJson(i).error, "empty")
       /\ UploadedFile(i).size > 104857600
            => Includes(ResponseJson(i).error, "exceeds maximum allowed size")
       /\ (UploadedFile(i).size \in 1..104857600
             /\ UploadedFile(i).type \notin AllowList)
            => Includes(ResponseJson(i).error, "not allowed")

\* An executable of acceptable size has been rejected for its type.
C3_Witness ==
  \E i \in Inv :
    /\ Returned(i) /\ MultipartPost(i) /\ HasFile(i)
    /\ UploadedFile(i).type = "application/x-executable"
    /\ UploadedFile(i).size = 12
    /\ response[i].status = 400
    /\ Includes(ResponseJson(i).error, "not allowed")

(***************************************************************************)
(* C4.  A request whose method is neither POST nor OPTIONS is answered 405 *)
(* with success=false and the error "Method not allowed. Only POST         *)
(* requests are accepted.", whatever its headers and body.                 *)
(***************************************************************************)
C4_MethodNotAllowed ==
  \A i \in Inv :
    (Returned(i) /\ request[i].method \notin {"POST", "OPTIONS"})
    => /\ response[i].status = 405
       /\ FailureBody(i, "Method not allowed. Only POST requests are accepted.")

\* A GET that carries a multipart Content-Type and a valid file has been
\* answered 405.
C4_Witness ==
  \E i \in Inv :
    /\ Returned(i)
    /\ request[i].method = "GET"
    /\ "content-type" \in DOMAIN request[i].headers
    /\ HasFile(i)
    /\ MeetsConstraints(UploadedFile(i))
    /\ response[i].status = 405

(***************************************************************************)
(* C5.  A POST whose Content-Type header is absent or does not contain     *)
(* "multipart/form-data" is answered 400 with success=false and the error  *)
(* "Content-Type must be multipart/form-data".                             *)
(***************************************************************************)
C5_ContentTypeRequired ==
  \A i \in Inv :
    (Returned(i) /\ request[i].method = "POST" /\ ~MultipartPost(i))
    => /\ response[i].status = 400
       /\ FailureBody(i, "Content-Type must be multipart/form-data")

\* A POST without any Content-Type header has been answered 400.
C5_Witness ==
  \E i \in Inv :
    /\ Returned(i)
    /\ request[i].method = "POST"
    /\ "content-type" \notin DOMAIN request[i].headers
    /\ response[i].status = 400

(***************************************************************************)
(* C6.  A POST multipart request whose body parses but whose "file" field  *)
(* is absent, or is not a file entry (a text value under the name "file"), *)
(* is answered 400 with success=false and the error 'No file provided.     *)
(* Please include a file in the "file" field.'; the validator is not run.  *)
(***************************************************************************)
C6_NoFileProvided ==
  \A i \in Inv :
    (Returned(i) /\ MultipartPost(i) /\ Parses(i) /\ ~HasFile(i))
    => /\ response[i].status = 400
       /\ FailureBody(i, "No file provided. Please include a file in the "
                           \o "\"file\" field.")
       /\ ~ArrayIncludes(calls[i], "validateFile")

\* A form whose "file" field is a text value has been answered 400.
C6_Witness ==
  \E i \in Inv :
    /\ Returned(i) /\ MultipartPost(i) /\ Parses(i)
    /\ "file" \in DOMAIN request[i].body.entries
    /\ request[i].body.entries["file"].kind = "string"
    /\ response[i].status = 400

(***************************************************************************)
(* C7.  An OPTIONS request is answered 200 with a null body (no JSON) and  *)
(* the headers Access-Control-Allow-Origin: *, Access-Control-Allow-Methods *)
(* naming POST and OPTIONS, and Access-Control-Allow-Headers: Content-Type, *)
(* whatever its headers and body.                                          *)
(***************************************************************************)
C7_OptionsPreflight ==
  \A i \in Inv :
    (Returned(i) /\ request[i].method = "OPTIONS")
    => /\ response[i].status = 200
       /\ response[i].body.kind = "null"
       /\ HeaderIs(i, "Access-Control-Allow-Origin", "*")
       /\ "Access-Control-Allow-Methods" \in DOMAIN response[i].headers
       /\ Includes(response[i].headers["Access-Control-Allow-Methods"], "POST")
       /\ Includes(response[i].headers["Access-Control-Allow-Methods"], "OPTIONS")
       /\ HeaderIs(i, "Access-Control-Allow-Headers", "Content-Type")

\* An OPTIONS request without a Content-Type and with a body that does not
\* parse has been answered 200.
C7_Witness ==
  \E i \in Inv :
    /\ Returned(i)
    /\ request[i].method = "OPTIONS"
    /\ "content-type" \notin DOMAIN request[i].headers
    /\ request[i].body.kind = "fault"
    /\ response[i].status = 200

(***************************************************************************)
(* C8.  When parsing the body as multipart form data raises a fault, the   *)
(* response is 500 with success=false and the error "File upload failed: " *)
(* followed by the fault's message, or by "Unknown error" when the fault   *)
(* carries no message; and no other path answers 500.  (The faults of the  *)
(* model are Errors, which carry a message, and a thrown value that is not *)
(* an Error and carries none.)                                             *)
(***************************************************************************)
C8_ParseFault ==
  \A i \in Inv :
    Returned(i) =>
      /\ (MultipartPost(i) /\ ~Parses(i))
           => /\ response[i].status = 500
              /\ FailureBody(i,
                   "File upload failed: "
                     \o (IF "message" \in DOMAIN request[i].body.thrown
                           THEN request[i].body.thrown.message
                           ELSE "Unknown error"))
      /\ response[i].status = 500 => (MultipartPost(i) /\ ~Parses(i))

\* Both kinds of fault have been answered: here the one without a message.
C8_Witness ==
  \E i \in Inv :
    /\ Returned(i) /\ MultipartPost(i) /\ ~Parses(i)
    /\ "message" \notin DOMAIN request[i].body.thrown
    /\ response[i].status = 500
    /\ ResponseJson(i).error = "File upload failed: Unknown error"

(***************************************************************************)
(* C9.  As claimed: every response, for every request method, includes a   *)
(* parseable ISO-8601 timestamp in its body.  The response to OPTIONS has  *)
(* no body.                                                                *)
(***************************************************************************)
HasTimestamp(i) ==
  LET b == ResponseJson(i)
  IN /\ b # SyntaxError
     /\ "timestamp" \in DOMAIN b
     /\ DateParse(b.timestamp) # NaN

C9_TimestampInEveryResponse ==
  \A i \in Inv : Returned(i) => HasTimestamp(i)

(***************************************************************************)
(* C9, amended.  Every response to a request other than OPTIONS includes a *)
(* parseable ISO-8601 timestamp in its body.                               *)
(***************************************************************************)
C9_TimestampUnlessOptions ==
  \A i \in Inv :
    (Returned(i) /\ request[i].method # "OPTIONS") => HasTimestamp(i)

\* A success response carries the timestamp of the last millisecond of a
\* leap day.
C9_Witness ==
  \E i \in Inv :
    /\ Returned(i)
    /\ response[i].status = 200
    /\ request[i].method = "POST"
    /\ HasTimestamp(i)
    /\ ResponseJson(i).timestamp = "2024-02-29T23:59:59.999Z"

(***************************************************************************)
(* C10.  Every response carries Access-Control-Allow-Origin: *, and every  *)
(* response other than the one to OPTIONS carries Content-Type:            *)
(* application/json.                                                       *)
(***************************************************************************)
C10_CorsAndContentType ==
  \A i \in Inv :
    Returned(i) =>
      /\ HeaderIs(i, "Access-Control-Allow-Origin", "*")
      /\ request[i].method # "OPTIONS"
           => HeaderIs(i, "Content-Type", "application/json")

\* The catch-all's 500 carries both headers.
C10_Witness ==
  \E i \in Inv :
    /\ Returned(i)
    /\ response[i].status = 500
    /\ HeaderIs(i, "Access-Control-Allow-Origin", "*")
    /\ HeaderIs(i, "Content-Type", "application/json")

(***************************************************************************)
(* C11.  In every JSON response body, success=true exactly when the file   *)
(* metadata is present and error is absent, and success=false exactly when *)
(* error is present (a string) and file is absent.                         *)
(***************************************************************************)
C11_SuccessIffFile ==
  \A i \in Inv :
    (Returned(i) /\ response[i].body.kind = "text")
    => LET b == ResponseJson(i)
       IN /\ b # SyntaxError
          /\ "success" \in DOMAIN b
          /\ b.success \in BOOLEAN
          /\ b.success = TRUE
               <=> ("file" \in DOMAIN b /\ "error" \notin DOMAIN b)
          /\ b.success = FALSE
               <=> ("error" \in DOMAIN b /\ "file" \notin DOMAIN b)
          /\ "error" \in DOMAIN b => Len(b.error) > 0

\* A success body with the file and without an error has been returned.
C11_Witness ==
  \E i \in Inv :
    /\ Returned(i)
    /\ response[i].body.kind = "text"
    /\ ResponseJson(i).success = TRUE
    /\ "file" \in DOMAIN ResponseJson(i)
    /\ "error" \notin DOMAIN ResponseJson(i)

(***************************************************************************)
(* C12.  A client input error (a method other than POST and OPTIONS, a     *)
(* wrong or missing Content-Type, a missing or non-file "file" field, a    *)
(* failed size or type constraint) is answered with a 4xx status and a     *)
(* structured JSON error body, never with a 500.                           *)
(***************************************************************************)
ClientInputError(i) ==
  \/ request[i].method \notin {"POST", "OPTIONS"}
  \/ request[i].method = "POST" /\ ~MultipartPost(i)
  \/ MultipartPost(i) /\ Parses(i) /\ ~HasFile(i)
  \/ MultipartPost(i) /\ HasFile(i) /\ ~MeetsConstraints(UploadedFile(i))

C12_ClientErrorsAre4xx ==
  \A i \in Inv :
    (Returned(i) /\ ClientInputError(i))
    => /\ response[i].status \in 400..499
       /\ response[i].body.kind = "text"
       /\ LET b == ResponseJson(i)
          IN /\ b # SyntaxError
             /\ DOMAIN b = {"success", "error", "timestamp"}
             /\ b.success = FALSE
             /\ Len(b.error) > 0

\* A POST with a JSON Content-Type and a body that would not parse as a
\* form has been answered 400.
C12_Witness ==
  \E i \in Inv :
    /\ Returned(i)
    /\ request[i].method = "POST"
    /\ ~MultipartPost(i)
    /\ request[i].body.kind = "fault"
    /\ response[i].status = 400

(***************************************************************************)
(* C13.  Each request is evaluated once and ends in one terminal outcome:  *)
(* when body parsing completes or faults the handler returns one response, *)
(* a full success or a full failure with exactly one error reason; no      *)
(* decision step is retried or re-entered, and a returned response is not  *)
(* replaced.                                                               *)
(***************************************************************************)
\* No element occurs twice in the sequence.
NoRepeat(seq) ==
  \A a \in 1..Len(seq), b \in 1..Len(seq) : a # b => seq[a] # seq[b]

\* How many of the validator's three reasons the text states.
ReasonsIn(error) ==
  Cardinality({p \in {"exceeds maximum allowed size", "File is empty",
                      "is not allowed"} : Includes(error, p)})

\* The response is one whole outcome: the preflight answer, a success with
\* the file, or a failure with one error.
OneOutcome(resp) ==
  IF resp.body.kind = "null" THEN resp.status = 200
  ELSE LET b == JSONParse(resp.body.text)
       IN /\ b # SyntaxError
          /\ \/ /\ resp.status = 200
                /\ DOMAIN b = {"success", "file", "timestamp"}
                /\ b.success = TRUE
             \/ /\ resp.status \in {400, 405, 500}
                /\ DOMAIN b = {"success", "error", "timestamp"}
                /\ b.success = FALSE
                /\ ReasonsIn(b.error) <= 1

C13_EvaluatedOnce ==
  [][\A i \in Inv :
       /\ (pc[i] = "formData" /\ pc'[i] # pc[i]) => pc'[i] = "returned"
       /\ (pc[i] # "returned" /\ pc'[i] = "returned")
            => /\ response[i] = NoResponse
               /\ OneOutcome(response'[i])
       /\ pc[i] = "returned"
            => \/ pc'[i] = "returned" /\ response'[i] = response[i]
                    /\ calls'[i] = calls[i] /\ log'[i] = log[i]
               \/ pc'[i] = "idle" /\ response'[i] = NoResponse
       /\ NoRepeat(calls'[i])
       /\ Len(log'[i]) <= 1]_vars

\* A file that is both oversized and of a disallowed type has been refused
\* with the size reason alone, after one parse and one validation.
C13_Witness ==
  \E i \in Inv :
    /\ Returned(i) /\ MultipartPost(i) /\ HasFile(i)
    /\ UploadedFile(i).size > 104857600
    /\ UploadedFile(i).type \notin AllowList
    /\ response[i].status = 400
    /\ ReasonsIn(ResponseJson(i).error) = 1
    /\ calls[i] = << "formData", "isFile", "validateFile" >>

(***************************************************************************)
(* C14.  With invocations running concurrently, under every interleaving   *)
(* of their steps, each request receives the status and body (up to the    *)
(* timestamp) it would receive if handled alone, and no step of one        *)
(* invocation changes what another holds.  What a request receives alone   *)
(* is written out here from sections 4.1 and 4.2 of the specification.     *)
(***************************************************************************)
AloneReason(f) ==
  IF f.size > 104857600
    THEN "File size " \o ToString(f.size)
           \o " bytes exceeds maximum allowed size of 104857600 bytes (100MB)"
  ELSE IF f.size = 0 THEN "File is empty"
  ELSE "File type '" \o f.type \o "' is not allowed. Allowed types: "
         \o AllowListText

AloneFailure(status, error) ==
  [status |-> status, body |-> [success |-> FALSE, error |-> error]]

\* The status and the body without its timestamp that request r receives
\* when it is the only one.
AloneOutcome(r) ==
  IF r.method = "OPTIONS" THEN [status |-> 200, body |-> SyntaxError]
  ELSE IF r.method # "POST"
    THEN AloneFailure(405, "Method not allowed. Only POST requests are accepted.")
  ELSE IF ~("content-type" \in DOMAIN r.headers
              /\ Includes(r.headers["content-type"], "multipart/form-data"))
    THEN AloneFailure(400, "Content-Type must be multipart/form-data")
  ELSE IF r.body.kind = "fault"
    THEN AloneFailure(500, "File upload failed: "
                             \o (IF "message" \in DOMAIN r.body.thrown
                                   THEN r.body.thrown.message
                                   ELSE "Unknown error"))
  ELSE IF ~("file" \in DOMAIN r.body.entries
              /\ r.body.entries["file"].kind = "File")
    THEN AloneFailure(400, "No file provided. Please include a file in the "
                             \o "\"file\" field.")
  ELSE IF ~MeetsConstraints(r.body.entries["file"])
    THEN AloneFailure(400, AloneReason(r.body.entries["file"]))
  ELSE [status |-> 200,
        body |-> [success |-> TRUE,
                  file |-> [k \in {"name", "size", "type", "lastModified"}
                              |-> r.body.entries["file"][k]]]]

\* The status and the parsed body, without its timestamp, of the response
\* invocation i returned.
Outcome(i) ==
  [status |-> response[i].status,
   body |-> LET b == ResponseJson(i)
            IN IF b = SyntaxError THEN SyntaxError
               ELSE [k \in DOMAIN b \ {"timestamp"} |-> b[k]]]

\* What invocation i holds.
Held(i) == << pc[i], request[i], response[i], log[i], calls[i] >>

C14_ConcurrentAsAlone ==
  /\ [](\A i \in Inv : Returned(i) => Outcome(i) = AloneOutcome(request[i]))
  /\ [][\A i \in Inv, j \in Inv :
          (i # j /\ Held(i)' # Held(i)) => Held(j)' = Held(j)]_vars

\* A valid upload has been accepted while another invocation, given a file
\* to refuse, is suspended at request.formData().
C14_Witness ==
  \E i \in Inv, j \in Inv :
    /\ i # j
    /\ Returned(i) /\ request[i].method = "POST" /\ response[i].status = 200
    /\ ResponseJson(i).file.name = "test.txt"
    /\ pc[j] = "formData"
    /\ HasFile(j)
    /\ UploadedFile(j).type = "application/x-executable"

(***************************************************************************)
(* C15.  However often and in whatever order files are validated, two      *)
(* validations of files with the same size and declared type (the same     *)
(* file in particular) return the same result, and a validation changes    *)
(* nothing but the record of what was called and returned.                 *)
(***************************************************************************)
C15_ValidateFilePure ==
  /\ [](\A m \in DOMAIN history, n \in DOMAIN history :
          (/\ history[m].file.size = history[n].file.size
           /\ history[m].file.type = history[n].file.type)
            => history[m].value = history[n].value)
  /\ [][/\ UNCHANGED << pc, request, response, log, calls >>
        /\ SubSeq(history', 1, Len(history)) = history]_vars

\* A file was validated, then one with another result, then one of the
\* first file's size and type under another name; and the same file twice.
C15_Witness ==
  /\ Len(history) = 3
  /\ history[1].file.size = history[3].file.size
  /\ history[1].file.type = history[3].file.type
  /\ history[1].file.name # history[3].file.name
  /\ history[1].file.size = 12
  /\ history[2].value # history[1].value

(***************************************************************************)
(* C16.  A returned invocation has emitted exactly one diagnostic record   *)
(* if it accepted an upload, exactly one error record if the body failed   *)
(* to parse, and none on the OPTIONS, 405 and 400 paths; a suspended       *)
(* invocation has emitted none; and nothing is emitted once the response   *)
(* has been returned, so each record precedes its response.                *)
(***************************************************************************)
DiagnosticOf(i) ==
  /\ Len(log[i]) = 1
  /\ log[i][1].level = "log"
  /\ DOMAIN log[i][1].data = {"name", "size", "type", "timestamp"}
  /\ log[i][1].data.name = UploadedFile(i).name
  /\ log[i][1].data.size = UploadedFile(i).size
  /\ log[i][1].data.type = UploadedFile(i).type

ErrorRecordOf(i) ==
  /\ Len(log[i]) = 1
  /\ log[i][1].level = "error"
  /\ log[i][1].data = request[i].body.thrown

C16_LogEmissions ==
  /\ [](\A i \in Inv :
          /\ pc[i] = "formData" => log[i] = << >>
          /\ Returned(i) =>
               IF request[i].method = "POST" /\ response[i].status = 200
                 THEN DiagnosticOf(i)
               ELSE IF response[i].status = 500 THEN ErrorRecordOf(i)
               ELSE /\ request[i].method = "OPTIONS"
                       \/ response[i].status \in {400, 405}
                    /\ log[i] = << >>)
  /\ [][\A i \in Inv : Returned(i) /\ Returned(i)' => log'[i] = log[i]]_vars

\* An upload has been answered with 200 after one diagnostic record.
C16_Witness ==
  \E i \in Inv :
    /\ Returned(i)
    /\ request[i].method = "POST"
    /\ response[i].status = 200
    /\ Len(log[i]) = 1
    /\ log[i][1].level = "log"
    /\ calls[i] = << "formData", "isFile", "validateFile",
                     "extractFileMetadata", "console.log" >>

(***************************************************************************)
(* C17.  extractFileMetadata returns, for every file it is given, valid    *)
(* or not, exactly the fields name, size, type and lastModified the file   *)
(* has, each with the file's value, and leaves the file as it was.         *)
(***************************************************************************)
C17_MetadataProjection ==
  /\ [](result.fn = "extractFileMetadata" =>
          /\ DOMAIN result.value
               = {"name", "size", "type", "lastModified"} \cap DOMAIN subject
          /\ \A k \in DOMAIN result.value : result.value[k] = subject[k])
  /\ [][subject' = subject]_vars

\* The metadata of an empty file of a refused type, without lastModified,
\* has been extracted.
C17_Witness ==
  /\ result.fn = "extractFileMetadata"
  /\ subject.size = 0
  /\ subject.type = "application/x-executable"
  /\ "lastModified" \notin DOMAIN subject
  /\ result.value.name = subject.name

(***************************************************************************)
(* C18.  The handler decides in the order OPTIONS, POST, Content-Type,     *)
(* body parse, "file" lookup, validation, metadata extraction, and stops   *)
(* at the first decision that answers: OPTIONS gets 200 and any other      *)
(* non-POST method 405 whatever the Content-Type and body; a POST that is  *)
(* not multipart gets 400 whatever the body; the body is parsed exactly    *)
(* for multipart POSTs; the later steps run in order, each only when the   *)
(* one before let the request through.                                     *)
(***************************************************************************)
IsPrefix(s, t) == Len(s) <= Len(t) /\ SubSeq(t, 1, Len(s)) = s

Called(i, fn) == \E n \in DOMAIN calls[i] : calls[i][n] = fn

C18_ShortCircuitOrder ==
  \A i \in Inv :
    pc[i] # "idle" =>
      /\ \/ IsPrefix(calls[i], << "formData", "isFile", "validateFile",
                                  "extractFileMetadata", "console.log" >>)
         \/ IsPrefix(calls[i], << "formData", "console.error" >>)
      /\ Called(i, "formData") <=> MultipartPost(i)
      /\ Called(i, "isFile") => Parses(i)
      /\ Called(i, "validateFile") => HasFile(i)
      /\ Called(i, "extractFileMetadata") =>
           HasFile(i) /\ MeetsConstraints(UploadedFile(i))
      /\ Returned(i) =>
           /\ request[i].method = "OPTIONS" =>
                response[i].status = 200 /\ calls[i] = << >>
           /\ request[i].method \notin {"OPTIONS", "POST"} =>
                response[i].status = 405 /\ calls[i] = << >>
           /\ request[i].method = "POST" /\ ~MultipartPost(i) =>
                response[i].status = 400 /\ calls[i] = << >>
           /\ MultipartPost(i) /\ ~Parses(i) =>
                response[i].status = 500 /\ ~Called(i, "isFile")
           /\ MultipartPost(i) /\ Parses(i) /\ ~HasFile(i) =>
                response[i].status = 400 /\ ~Called(i, "validateFile")
           /\ HasFile(i) /\ MultipartPost(i)
                /\ ~MeetsConstraints(UploadedFile(i)) =>
                response[i].status = 400 /\ ~Called(i, "extractFileMetadata")

\* A GET without Content-Type whose body does not parse was answered 405.
C18_Witness ==
  \E i \in Inv :
    /\ Returned(i)
    /\ request[i].method = "GET"
    /\ "content-type" \notin DOMAIN request[i].headers
    /\ request[i].body.kind = "fault"
    /\ response[i].status = 405
    /\ calls[i] = << >>

(***************************************************************************)
(* C19.  The result of validateFile carries an error exactly when valid is *)
(* false; the error of a failed validation is one non-empty string naming  *)
(* one reason.                                                             *)
(***************************************************************************)
C19_ErrorIffInvalid ==
  result.fn = "validateFile" =>
    /\ result.value.valid \in BOOLEAN
    /\ "error" \in DOMAIN result.value <=> result.value.valid = FALSE
    /\ result.value.valid = FALSE =>
         /\ Len(result.value.error) > 0
         /\ ReasonsIn(result.value.error) = 1

\* An oversized file of a refused type was validated: one reason, though
\* two constraints fail.
C19_Witness ==
  /\ result.fn = "validateFile"
  /\ subject.size > 104857600
  /\ subject.type \notin AllowList
  /\ result.value.valid = FALSE
  /\ "error" \in DOMAIN result.value

(***************************************************************************)
(* C20.  A response whose body says success=true was produced only for a   *)
(* POST whose Content-Type contains multipart/form-data, whose body parsed *)
(* and whose "file" entry is a file with 0 < size <= 104,857,600 and a     *)
(* declared type in the allow-list.                                        *)
(***************************************************************************)
SaysSuccess(i) ==
  /\ Returned(i)
  /\ ResponseJson(i) # SyntaxError
  /\ "success" \in DOMAIN ResponseJson(i)
  /\ ResponseJson(i).success = TRUE

C20_SuccessOnlyThroughGates ==
  \A i \in Inv :
    SaysSuccess(i) =>
      /\ request[i].method = "POST"
      /\ "content-type" \in DOMAIN request[i].headers
      /\ Includes(request[i].headers["content-type"], "multipart/form-data")
      /\ request[i].body.kind = "form"
      /\ "file" \in DOMAIN request[i].body.entries
      /\ request[i].body.entries["file"].kind = "File"
      /\ request[i].body.entries["file"].size > 0
      /\ request[i].body.entries["file"].size <= 104857600
      /\ request[i].body.entries["file"].type \in AllowList

\* A file of exactly the largest size allowed was accepted.
C20_Witness ==
  \E i \in Inv :
    /\ SaysSuccess(i)
    /\ response[i].status = 200
    /\ request[i].body.entries["file"].size = 104857600

(***************************************************************************)
(* C21.  Every response has status 200, 400, 405 or 500.  A response with  *)
(* a JSON body has status 200 exactly when the body says success=true, so  *)
(* every 400, 405 and 500 body says success=false; the only response       *)
(* without success is the body-less 200 answering OPTIONS.                 *)
(***************************************************************************)
C21_StatusMatchesSuccess ==
  \A i \in Inv :
    Returned(i) =>
      /\ response[i].status \in {200, 400, 405, 500}
      /\ IF response[i].body.kind = "text"
           THEN LET b == JSONParse(response[i].body.text)
                IN /\ b # SyntaxError
                   /\ "success" \in DOMAIN b
                   /\ b.success \in BOOLEAN
                   /\ response[i].status = 200 <=> b.success = TRUE
           ELSE /\ response[i].status = 200
                /\ request[i].method = "OPTIONS"

\* The catch-all has answered 500 with success=false.
C21_Witness ==
  \E i \in Inv :
    /\ Returned(i)
    /\ response[i].status = 500
    /\ response[i].body.kind = "text"
    /\ JSONParse(response[i].body.text).success = FALSE

====
